---- MODULE Spec2Model ----
(***************************************************************************)
(* Model of wonderwords/random_word.py: the RandomWord engine, its         *)
(* construction (_custom_categories, the optional tries), filter with its  *)
(* helpers (_validate_lengths, _get_words_of_length, _bisect_by_length,    *)
(* _perform_long_operations) and random_words.                             *)
(*                                                                         *)
(* A word is a sequence of one-character strings.  A Python Optional is a  *)
(* sequence of length at most one: None is <<>>, a value x is <<x>>.       *)
(* A Python list object is an entry of a heap (callerLists for the lists   *)
(* the caller passes in, default_categories for the module global), and a  *)
(* category of an engine holds the name of the list object it refers to.   *)
(***************************************************************************)
EXTENDS Integers, Sequences, FiniteSets, TLC

(* ---------------------------------------------------------------------- *)
(* Bounds                                                                  *)
(* ---------------------------------------------------------------------- *)
MaxSortedLen == 4    \* longest sorted list handed to the bisection
MaxListLen == 2      \* longest list the caller passes to the constructor
MaxBound == 3        \* largest word_min_length / word_max_length tried
MaxAmount == 3       \* largest amount asked of random_words
NumEngines == 2      \* engines constructed side by side

None == <<>>
Some(x) == <<x>>
IsNone(o) == o = <<>>
Val(o) == o[1]

Range(s) == {s[i] : i \in DOMAIN s}

(* ---------------------------------------------------------------------- *)
(* Words                                                                   *)
(* ---------------------------------------------------------------------- *)
W_b == <<"b">>
W_ab == <<"a", "b">>
W_a_b == <<"a", " ", "b">>
W_aba == <<"a", "b", "a">>
W_abba == <<"a", "b", "b", "a">>

\* words the caller's list is drawn from
CallerWords == {W_b, W_aba}

RECURSIVE SeqsUpTo(_, _)
SeqsUpTo(S, n) ==
  IF n = 0 THEN {<<>>}
  ELSE LET shorter == SeqsUpTo(S, n - 1)
       IN shorter \cup {Append(s, x) : s \in {t \in shorter : Len(t) = n - 1}, x \in S}

\* word[::-1]
Reverse(w) == [i \in 1..Len(w) |-> w[Len(w) + 1 - i]]

\* word.startswith(prefix)
StartsWith(w, prefix) ==
  /\ Len(prefix) <= Len(w)
  /\ \A i \in 1..Len(prefix) : w[i] = prefix[i]

\* word.endswith(suffix)
EndsWith(w, suffix) ==
  /\ Len(suffix) <= Len(w)
  /\ \A i \in 1..Len(suffix) : w[Len(w) - Len(suffix) + i] = suffix[i]

(* ---------------------------------------------------------------------- *)
(* The default word lists                                                  *)
(* ---------------------------------------------------------------------- *)
Defaults == {"NOUNS", "VERBS", "ADJECTIVES", "PROFANITIES"}

\* _default_categories as loaded at import: each bundled file is read line
\* by line, in file order, which is alphabetical and so not by length.
\* Short lists stand for the bundled files.
LoadedDefaults ==
  [d \in Defaults |->
     CASE d = "NOUNS" -> <<W_a_b, W_abba, W_b>>
       [] d = "VERBS" -> <<W_abba, W_b>>
       [] d = "ADJECTIVES" -> <<W_ab, W_b>>
       [] OTHER -> <<W_aba>>]

CallerListIds == {"L1"}

Engines == 1..NumEngines
FirstEngine == 1

VARIABLES
  callerLists,          \* the list objects the caller owns: id -> sequence of words
  default_categories,   \* the module global _default_categories: Defaults -> sequence
  built,                \* engine -> has __init__ run
  categories,           \* engine -> self._categories: name -> list object referred to
  tries,                \* engine -> self._tries: None or Some(<<trie, reversed trie>>)
  last                  \* the last call made and its outcome

vars == <<callerLists, default_categories, built, categories, tries, last>>

\* the list object a reference names
Deref(ref) ==
  IF ref \in CallerListIds THEN callerLists[ref] ELSE default_categories[ref]

(* ---------------------------------------------------------------------- *)
(* Construction                                                            *)
(* ---------------------------------------------------------------------- *)
\* list.sort(key=len): a stable sort by length
RECURSIVE InsertByLen(_, _)
InsertByLen(x, s) ==
  IF s = <<>> THEN <<x>>
  ELSE IF Len(s[Len(s)]) <= Len(x) THEN Append(s, x)
  ELSE Append(InsertByLen(x, SubSeq(s, 1, Len(s) - 1)), s[Len(s)])

RECURSIVE SortByLen(_)
SortByLen(s) ==
  IF s = <<>> THEN <<>>
  ELSE InsertByLen(s[Len(s)], SortByLen(SubSeq(s, 1, Len(s) - 1)))

\* the dictionary __init__ uses when no keyword argument is given
DefaultKwargs ==
  [name \in {"noun", "verb", "adjective", "nouns", "verbs", "adjectives"} |->
     CASE name \in {"noun", "nouns"} -> "NOUNS"
       [] name \in {"verb", "verbs"} -> "VERBS"
       [] OTHER -> "ADJECTIVES"]

\* keyword arguments tried: none, one literal list, a literal list and a default
NoKwargs == <<>>
KwargsChoices ==
  { NoKwargs,
    ("noun" :> "L1"),
    ("noun" :> "L1") @@ ("adjective" :> "ADJECTIVES") }

\* _custom_categories: every list named is sorted in place (SortedInPlace)
\* and the dictionary returned maps the name to that same list object
CustomCategories(custom) == [name \in DOMAIN custom |-> custom[name]]
SortedInPlace(lists, custom) ==
  [l \in DOMAIN lists |-> IF l \in Range(custom) THEN SortByLen(lists[l]) ELSE lists[l]]

\* _trie.Trie: the set of the words inserted
EmptyTrie == {}
TrieInsert(t, w) == t \cup {w}
get_words_that_start_with(t, prefix) == {w \in t : StartsWith(w, prefix)}

\* the two tries of __init__, filled from every word of every category
RECURSIVE InsertAll(_, _, _)
InsertAll(t, ws, reversed) ==
  IF ws = <<>> THEN t
  ELSE InsertAll(TrieInsert(t, IF reversed THEN Reverse(ws[1]) ELSE ws[1]),
                 SubSeq(ws, 2, Len(ws)), reversed)

RECURSIVE BuildTrie(_, _, _)
BuildTrie(cats, names, reversed) ==
  IF names = {} THEN EmptyTrie
  ELSE LET n == CHOOSE x \in names : TRUE
       IN InsertAll(BuildTrie(cats, names \ {n}, reversed), cats[n], reversed)

\* cats: name -> sequence of words, as the categories stand after sorting
BuildTries(enhanced_prefixes, cats) ==
  IF enhanced_prefixes
    THEN Some(<<BuildTrie(cats, DOMAIN cats, FALSE), BuildTrie(cats, DOMAIN cats, TRUE)>>)
    ELSE None

(* ---------------------------------------------------------------------- *)
(* Length bounds and the bisection                                         *)
(* ---------------------------------------------------------------------- *)
LengthMessage == <<"word_min_length cannot be greater than word_max_length">>

\* _validate_lengths without the exemption of a word_max_length of 0
validate_lengths_NoZeroCase(word_min_length, word_max_length) ==
  IF /\ ~IsNone(word_min_length)
     /\ ~IsNone(word_max_length)
     /\ Val(word_min_length) > Val(word_max_length)
    THEN [raised |-> TRUE, min |-> word_min_length, max |-> word_max_length]
    ELSE [raised |-> FALSE,
          min |-> IF ~IsNone(word_min_length) /\ Val(word_min_length) < 0
                    THEN None ELSE word_min_length,
          max |-> IF ~IsNone(word_max_length) /\ Val(word_max_length) < 0
                    THEN None ELSE word_max_length]

\* _validate_lengths on int-or-None bounds: raised, or the normalised pair
validate_lengths(word_min_length, word_max_length) ==
  IF /\ ~IsNone(word_min_length)
     /\ ~IsNone(word_max_length)
     /\ Val(word_min_length) > Val(word_max_length)
     /\ Val(word_max_length) # 0
    THEN [raised |-> TRUE, min |-> word_min_length, max |-> word_max_length]
    ELSE [raised |-> FALSE,
          min |-> IF ~IsNone(word_min_length) /\ Val(word_min_length) < 0
                    THEN None ELSE word_min_length,
          max |-> IF ~IsNone(word_max_length) /\ Val(word_max_length) < 0
                    THEN None ELSE word_max_length]

\* the while loop comparing with <= in place of <
RECURSIVE BisectLoop_Right(_, _, _, _)
BisectLoop_Right(words, target_length, left, right) ==
  IF left <= right
    THEN LET middle == left + ((right - left) \div 2)
         IN IF Len(words[middle + 1]) <= target_length
              THEN BisectLoop_Right(words, target_length, middle + 1, right)
              ELSE BisectLoop_Right(words, target_length, left, middle - 1)
    ELSE left

\* the while loop of _bisect_by_length
RECURSIVE BisectLoop(_, _, _, _)
BisectLoop(words, target_length, left, right) ==
  IF left <= right
    THEN LET middle == left + ((right - left) \div 2)
         IN IF Len(words[middle + 1]) < target_length
              THEN BisectLoop(words, target_length, middle + 1, right)
              ELSE BisectLoop(words, target_length, left, middle - 1)
    ELSE left

bisect_by_length(words, target_length) ==
  BisectLoop(words, target_length, 0, Len(words) - 1)

\* word_list[left_index:right_index] for 0 <= left_index, right_index <= len
Slice(word_list, left_index, right_index) ==
  IF IsNone(right_index) THEN SubSeq(word_list, left_index + 1, Len(word_list))
  ELSE IF left_index >= Val(right_index) THEN <<>>
  ELSE SubSeq(word_list, left_index + 1, Val(right_index))

\* _get_words_of_length bisecting for max_length in place of max_length + 1
get_words_of_length_OffByOne(word_list, min_length, max_length) ==
  LET left_index == IF IsNone(min_length) THEN 0
                    ELSE bisect_by_length(word_list, Val(min_length))
      right_index == IF IsNone(max_length) THEN None
                     ELSE Some(bisect_by_length(word_list, Val(max_length)))
  IN Slice(word_list, left_index, right_index)

get_words_of_length(word_list, min_length, max_length) ==
  LET left_index == IF IsNone(min_length) THEN 0
                    ELSE bisect_by_length(word_list, Val(min_length))
      right_index == IF IsNone(max_length) THEN None
                     ELSE Some(bisect_by_length(word_list, Val(max_length) + 1))
  IN Slice(word_list, left_index, right_index)

(* ---------------------------------------------------------------------- *)
(* Patterns: re.fullmatch over literals, "." and a postfix "*"             *)
(* ---------------------------------------------------------------------- *)
\* the message of the re.error compiling the pattern raises, None if it compiles
RECURSIVE CompileError(_, _)
CompileError(p, i) ==
  IF i > Len(p) THEN None
  ELSE IF p[i] = "*" /\ i = 1
    THEN Some(<<"nothing to repeat at position ", ToString(i - 1)>>)
  ELSE IF p[i] = "*" /\ p[i - 1] = "*"
    THEN Some(<<"multiple repeat at position ", ToString(i - 1)>>)
  ELSE CompileError(p, i + 1)

AtomMatches(atom, c) == atom = "." \/ atom = c

RECURSIVE MatchFrom(_, _, _, _)
MatchFrom(p, i, w, j) ==
  IF i > Len(p) THEN j > Len(w)
  ELSE IF i < Len(p) /\ p[i + 1] = "*"
    THEN \/ MatchFrom(p, i + 2, w, j)
         \/ /\ j <= Len(w)
            /\ AtomMatches(p[i], w[j])
            /\ MatchFrom(p, i, w, j + 1)
  ELSE /\ j <= Len(w)
       /\ AtomMatches(p[i], w[j])
       /\ MatchFrom(p, i + 1, w, j + 1)

\* re.fullmatch(p, w) is not None, for a pattern that compiles
fullmatch(p, w) == MatchFrom(p, 1, w, 1)

(* ---------------------------------------------------------------------- *)
(* filter                                                                  *)
(* ---------------------------------------------------------------------- *)
Ok(value) == [kind |-> "ok", value |-> value, msg |-> <<>>]
Raise(kind, msg) == [kind |-> kind, value |-> {}, msg |-> msg]

CategoryMessage(category) == <<"'", category, "' is an invalid category">>

\* _perform_long_operations: the words to remove, or the re.error the first
\* re.fullmatch raises
perform_long_operations(words, long_operations) ==
  IF /\ ~IsNone(long_operations.regex)
     /\ words # {}
     /\ ~IsNone(CompileError(Val(long_operations.regex), 1))
    THEN Raise("re.error", Val(CompileError(Val(long_operations.regex), 1)))
    ELSE Ok({word \in words :
               \/ /\ ~IsNone(long_operations.regex)
                  /\ ~fullmatch(Val(long_operations.regex), word)
               \/ /\ long_operations.exclude_with_spaces
                  /\ " " \in Range(word)
               \/ /\ ~IsNone(long_operations.starts_with)
                  /\ ~StartsWith(word, Val(long_operations.starts_with))
               \/ /\ ~IsNone(long_operations.ends_with)
                  /\ ~EndsWith(word, Val(long_operations.ends_with))})

RECURSIVE SetToSeq(_)
SetToSeq(S) ==
  IF S = {} THEN <<>>
  ELSE LET x == CHOOSE y \in S : TRUE IN <<x>> \o SetToSeq(S \ {x})

\* the loop over include_categories passing over a name that is not a category
RECURSIVE GatherWords_SkipUnknown(_, _, _, _, _)
GatherWords_SkipUnknown(cats, include_categories, i, bounds, words) ==
  IF i > Len(include_categories) THEN Ok(words)
  ELSE IF include_categories[i] \notin DOMAIN cats
    THEN GatherWords_SkipUnknown(cats, include_categories, i + 1, bounds, words)
  ELSE GatherWords_SkipUnknown(cats, include_categories, i + 1, bounds,
         words \cup Range(get_words_of_length(Deref(cats[include_categories[i]]),
                                              bounds.min, bounds.max)))

\* the loop over include_categories: the words gathered, or the ValueError
\* of the first name that is not a category
RECURSIVE GatherWords(_, _, _, _, _)
GatherWords(cats, include_categories, i, bounds, words) ==
  IF i > Len(include_categories) THEN Ok(words)
  ELSE IF include_categories[i] \notin DOMAIN cats
    THEN Raise("ValueError", CategoryMessage(include_categories[i]))
  ELSE GatherWords(cats, include_categories, i + 1, bounds,
         words \cup Range(get_words_of_length(Deref(cats[include_categories[i]]),
                                              bounds.min, bounds.max)))

\* the indexed narrowing of filter, for self._tries not None
NarrowByTries(words, t, starts_with, ends_with) ==
  LET byPrefix == IF starts_with # <<>>
                    THEN words \cap get_words_that_start_with(t[1], starts_with)
                    ELSE words
  IN IF ends_with # <<>>
       THEN byPrefix \cap
              {Reverse(i) : i \in get_words_that_start_with(t[2], Reverse(ends_with))}
       ELSE byPrefix

\* RandomWord.filter for an engine with the given _categories and _tries;
\* the list returned is given as the set of its words
filter(cats, trs, spec) ==
  LET bounds == validate_lengths(spec.word_min_length, spec.word_max_length)
      include_categories ==
        IF spec.include_categories # <<>> THEN spec.include_categories
        ELSE IF spec.include_parts_of_speech # <<>> THEN spec.include_parts_of_speech
        ELSE SetToSeq(DOMAIN cats)
      gathered == GatherWords(cats, include_categories, 1, bounds, {})
      words == IF IsNone(trs) THEN gathered.value
               ELSE NarrowByTries(gathered.value, Val(trs),
                                  spec.starts_with, spec.ends_with)
      long_operations ==
        [regex |-> spec.regex,
         exclude_with_spaces |-> spec.exclude_with_spaces,
         starts_with |-> IF IsNone(trs) /\ spec.starts_with # <<>>
                           THEN Some(spec.starts_with) ELSE None,
         ends_with |-> IF IsNone(trs) /\ spec.ends_with # <<>>
                         THEN Some(spec.ends_with) ELSE None]
      anyLong == \/ ~IsNone(long_operations.regex)
                 \/ long_operations.exclude_with_spaces
                 \/ ~IsNone(long_operations.starts_with)
                 \/ ~IsNone(long_operations.ends_with)
      removed == perform_long_operations(words, long_operations)
  IN IF bounds.raised THEN Raise("ValueError", LengthMessage)
     ELSE IF gathered.kind # "ok" THEN gathered
     ELSE IF ~anyLong THEN Ok(words)
     ELSE IF removed.kind # "ok" THEN removed
     ELSE Ok(words \ removed.value)

(* ---------------------------------------------------------------------- *)
(* random_words                                                            *)
(* ---------------------------------------------------------------------- *)
\* list(words): the words of a set in some order
Orderings(S) == {s \in [1..Cardinality(S) -> S] : Range(s) = S}

\* random.shuffle(choose_from): any rearrangement
Shuffles(s) == {[i \in DOMAIN s |-> s[p[i]]] : p \in Permutations(DOMAIN s)}

\* a remove that leaves the list as it is
Remove_Keep(s, x) == s

\* choose_from.remove(new_word): the first occurrence goes
RECURSIVE Remove(_, _)
Remove(s, x) ==
  IF s = <<>> THEN <<>>
  ELSE IF s[1] = x THEN SubSeq(s, 2, Len(s))
  ELSE <<s[1]>> \o Remove(SubSeq(s, 2, Len(s)), x)

\* the for loop of random_words: every list the random choices can build;
\* random.choice raises IndexError on an empty list
RECURSIVE Draw(_, _, _)
Draw(choose_from, amount, words) ==
  IF amount <= 0 THEN {[kind |-> "ok", value |-> words, msg |-> <<>>]}
  ELSE IF choose_from = <<>>
    THEN {[kind |-> "IndexError", value |-> <<>>, msg |-> <<"Cannot choose from an empty sequence">>]}
  ELSE UNION {Draw(Remove(choose_from, choose_from[i]), amount - 1,
                   Append(words, choose_from[i])) : i \in DOMAIN choose_from}

NotEnoughMessage(amount) ==
  <<"There aren't enough words to choose from. Cannot generate ",
    ToString(amount), " word(s)">>

\* random_words refusing an amount equal to the size of the pool
Sample_Strict(choose_from, amount, return_less_if_necessary) ==
  IF ~return_less_if_necessary /\ Len(choose_from) <= amount
    THEN {[kind |-> "NoWordsToChoseFrom", value |-> <<>>, msg |-> NotEnoughMessage(amount)]}
  ELSE IF return_less_if_necessary
    THEN {[kind |-> "ok", value |-> s, msg |-> <<>>] : s \in Shuffles(choose_from)}
  ELSE Draw(choose_from, amount, <<>>)

\* the outcomes of random_words once filter has returned the list choose_from
Sample(choose_from, amount, return_less_if_necessary) ==
  IF ~return_less_if_necessary /\ Len(choose_from) < amount
    THEN {[kind |-> "NoWordsToChoseFrom", value |-> <<>>, msg |-> NotEnoughMessage(amount)]}
  ELSE IF return_less_if_necessary
    THEN {[kind |-> "ok", value |-> s, msg |-> <<>>] : s \in Shuffles(choose_from)}
  ELSE Draw(choose_from, amount, <<>>)

\* every outcome of RandomWord.random_words
random_words(cats, trs, amount, spec, return_less_if_necessary) ==
  LET filtered == filter(cats, trs, spec)
  IN IF filtered.kind # "ok"
       THEN {[kind |-> filtered.kind, value |-> <<>>, msg |-> filtered.msg]}
       ELSE UNION {Sample(choose_from, amount, return_less_if_necessary) :
                     choose_from \in Orderings(filtered.value)}

(* ---------------------------------------------------------------------- *)
(* The calls tried                                                         *)
(* ---------------------------------------------------------------------- *)
MkSpec(sw, ew, ic, ip, mn, mx, re, ex) ==
  [starts_with |-> sw, ends_with |-> ew, include_categories |-> ic,
   include_parts_of_speech |-> ip, word_min_length |-> mn,
   word_max_length |-> mx, regex |-> re, exclude_with_spaces |-> ex]

LenValues == (-1)..MaxBound
LenOpts == {None} \cup {Some(n) : n \in LenValues}

P_dot_bstar == <<".", "b", "*">>   \* .b*
P_star == <<"*">>                  \* does not compile
Patterns == {P_dot_bstar, P_star}

\* every pair of length bounds over all categories, and two pairs with a
\* category that is not configured
LengthSpecs ==
  {MkSpec(<<>>, <<>>, <<>>, <<>>, mn, mx, None, FALSE) :
     mn \in LenOpts, mx \in LenOpts}
  \cup {MkSpec(<<>>, <<>>, <<"pet">>, <<>>, b[1], b[2], None, FALSE) :
          b \in {<<Some(2), Some(1)>>, <<Some(1), Some(2)>>}}

\* every combination of prefix, suffix, pattern and space exclusion, over
\* two categories
ConstraintSpecs ==
  {MkSpec(sw, ew, <<"noun", "adjective">>, <<>>, None, None, re, ex) :
     sw \in {<<>>, <<"a", "b">>},
     ew \in {<<>>, <<"b", "a">>},
     re \in {None} \cup {Some(p) : p \in Patterns},
     ex \in BOOLEAN}

\* the ways of naming categories, configured or not
CategorySpecs ==
  {MkSpec(sw, <<>>, c[1], c[2], Some(2), Some(3), re, FALSE) :
     sw \in {<<>>, <<"a", "b">>},
     c \in {<<<<>>, <<>>>>, <<<<"noun">>, <<>>>>, <<<<"noun", "pet", "verb">>, <<>>>>,
            <<<<>>, <<"adjective">>>>, <<<<>>, <<"pet">>>>, <<<<"noun">>, <<"pet">>>>},
     re \in {None, Some(P_star)}}

FilterSpecs == LengthSpecs \cup ConstraintSpecs \cup CategorySpecs

\* what random_words is asked to sample from
SampleSpecs ==
  {MkSpec(<<>>, <<>>, <<"noun">>, <<>>, None, None, None, FALSE),
   MkSpec(<<"a">>, <<>>, <<>>, <<>>, None, None, None, FALSE),
   MkSpec(<<>>, <<>>, <<"pet">>, <<>>, None, None, None, FALSE),
   MkSpec(<<>>, <<>>, <<"noun">>, <<>>, Some(3), Some(1), None, FALSE)}

Amounts == 0..MaxAmount

NoCall == [op |-> "none"]

Init ==
  /\ callerLists \in [CallerListIds -> SeqsUpTo(CallerWords, MaxListLen)]
  /\ default_categories = LoadedDefaults
  /\ built = [e \in Engines |-> FALSE]
  /\ categories = [e \in Engines |-> <<>>]
  /\ tries = [e \in Engines |-> None]
  /\ last = NoCall

\* RandomWord(enhanced_prefixes, **kwargs) run for the engine e
Construct(e, enhanced_prefixes, kwargs) ==
  /\ ~built[e]
  /\ \A d \in Engines : d < e => built[d]
  /\ LET custom == IF kwargs # NoKwargs THEN kwargs ELSE DefaultKwargs
         newCaller == SortedInPlace(callerLists, custom)
         newDefault == SortedInPlace(default_categories, custom)
         cats == [n \in DOMAIN custom |->
                    IF custom[n] \in CallerListIds THEN newCaller[custom[n]]
                    ELSE newDefault[custom[n]]]
     IN /\ callerLists' = newCaller
        /\ default_categories' = newDefault
        /\ categories' = [categories EXCEPT ![e] = CustomCategories(custom)]
        /\ tries' = [tries EXCEPT ![e] = BuildTries(enhanced_prefixes, cats)]
  /\ built' = [built EXCEPT ![e] = TRUE]
  /\ UNCHANGED last

\* a call of engine.filter(**spec)
Filter(e, spec) ==
  /\ built[e]
  /\ last' = [op |-> "filter", engine |-> e, spec |-> spec, amount |-> 0,
              return_less_if_necessary |-> FALSE,
              out |-> filter(categories[e], tries[e], spec)]
  /\ UNCHANGED <<callerLists, default_categories, built, categories, tries>>

\* a list without the words of a set
RECURSIVE Without(_, _)
Without(s, ws) ==
  IF s = <<>> THEN <<>>
  ELSE (IF s[1] \in ws THEN <<>> ELSE <<s[1]>>) \o Without(SubSeq(s, 2, Len(s)), ws)

\* random_words working on the category lists themselves, not on a copy:
\* the words it hands out are removed from the lists of the engine
RandomWords_Aliased(e, amount, spec, return_less_if_necessary) ==
  /\ built[e]
  /\ \E out \in random_words(categories[e], tries[e], amount, spec,
                             return_less_if_necessary) :
       LET drawn == IF out.kind = "ok" THEN Range(out.value) ELSE {}
       IN /\ last' = [op |-> "random_words", engine |-> e, spec |-> spec,
                      amount |-> amount,
                      return_less_if_necessary |-> return_less_if_necessary,
                      out |-> out]
          /\ callerLists' =
               [l \in DOMAIN callerLists |->
                  IF l \in Range(categories[e]) THEN Without(callerLists[l], drawn)
                  ELSE callerLists[l]]
          /\ default_categories' =
               [l \in DOMAIN default_categories |->
                  IF l \in Range(categories[e]) THEN Without(default_categories[l], drawn)
                  ELSE default_categories[l]]
  /\ UNCHANGED <<built, categories, tries>>

\* a call of engine.random_words(amount, **spec, return_less_if_necessary)
RandomWords(e, amount, spec, return_less_if_necessary) ==
  /\ built[e]
  /\ \E out \in random_words(categories[e], tries[e], amount, spec,
                             return_less_if_necessary) :
       last' = [op |-> "random_words", engine |-> e, spec |-> spec,
                amount |-> amount,
                return_less_if_necessary |-> return_less_if_necessary,
                out |-> out]
  /\ UNCHANGED <<callerLists, default_categories, built, categories, tries>>

\* one engine and the calls made on it
Next ==
  \/ \E enhanced_prefixes \in BOOLEAN, kwargs \in KwargsChoices :
       Construct(FirstEngine, enhanced_prefixes, kwargs)
  \/ \E spec \in FilterSpecs : Filter(FirstEngine, spec)
  \/ \E amount \in Amounts, spec \in SampleSpecs, less \in BOOLEAN :
       RandomWords(FirstEngine, amount, spec, less)

Spec == Init /\ [][Next]_vars

\* engines constructed one after the other from the same lists
NextEngines ==
  \E e \in Engines, enhanced_prefixes \in BOOLEAN, kwargs \in KwargsChoices :
    Construct(e, enhanced_prefixes, kwargs)

SpecEngines == Init /\ [][NextEngines]_vars

(* ---------------------------------------------------------------------- *)
(* The bisection on its own                                                *)
(* ---------------------------------------------------------------------- *)
\* words of every length from 1 to 4, two of them of length 3
SortedWords == {W_b, W_ab, W_aba, W_a_b, W_abba}

IsSortedByLen(s) == \A i \in 1..(Len(s) - 1) : Len(s[i]) <= Len(s[i + 1])

\* the lists a category can hold: sorted ascending by length
SortedLists == {s \in SeqsUpTo(SortedWords, MaxSortedLen) : IsSortedByLen(s)}

BisectTargets == (-1)..(MaxBound + 2)
SliceOpts == {None} \cup {Some(n) : n \in 0..(MaxBound + 2)}

\* the list handed to _bisect_by_length and _get_words_of_length
WordList == callerLists["L1"]

InitBisect ==
  /\ callerLists \in [CallerListIds -> SortedLists]
  /\ default_categories = LoadedDefaults
  /\ built = [e \in Engines |-> FALSE]
  /\ categories = [e \in Engines |-> <<>>]
  /\ tries = [e \in Engines |-> None]
  /\ last = NoCall

\* a call of _bisect_by_length(WordList, target_length)
BisectByLength(target_length) ==
  /\ last' = [op |-> "_bisect_by_length", target_length |-> target_length,
              out |-> bisect_by_length(WordList, target_length)]
  /\ UNCHANGED <<callerLists, default_categories, built, categories, tries>>

\* a call of _get_words_of_length(WordList, min_length, max_length)
GetWordsOfLength(min_length, max_length) ==
  /\ last' = [op |-> "_get_words_of_length", min_length |-> min_length,
              max_length |-> max_length,
              out |-> get_words_of_length(WordList, min_length, max_length)]
  /\ UNCHANGED <<callerLists, default_categories, built, categories, tries>>

NextBisect ==
  \/ \E target_length \in BisectTargets : BisectByLength(target_length)
  \/ \E min_length \in SliceOpts, max_length \in SliceOpts :
       GetWordsOfLength(min_length, max_length)

SpecBisect == InitBisect /\ [][NextBisect]_vars

(* ---------------------------------------------------------------------- *)
(* Properties                                                              *)
(* ---------------------------------------------------------------------- *)
LastEngine == last.engine
LastCats == categories[LastEngine]

\* the categories a spec names: include_categories, else the deprecated
\* include_parts_of_speech, else none
Requested(spec) ==
  IF spec.include_categories # <<>> THEN spec.include_categories
  ELSE spec.include_parts_of_speech

Compiles(re) == IsNone(re) \/ IsNone(CompileError(Val(re), 1))

LengthsRejected(spec) ==
  /\ ~IsNone(spec.word_min_length)
  /\ ~IsNone(spec.word_max_length)
  /\ Val(spec.word_min_length) > Val(spec.word_max_length)
  /\ Val(spec.word_max_length) # 0

\* the words a spec asks for, read off the categories word by word
Expected(cats, spec) ==
  LET selected == IF Requested(spec) # <<>> THEN Range(Requested(spec)) ELSE DOMAIN cats
      candidates == UNION {Range(Deref(cats[c])) : c \in selected}
  IN {w \in candidates :
        /\ IsNone(spec.word_min_length) \/ Val(spec.word_min_length) <= Len(w)
        /\ IsNone(spec.word_max_length) \/ Len(w) <= Val(spec.word_max_length)
        /\ StartsWith(w, spec.starts_with)
        /\ EndsWith(w, spec.ends_with)
        /\ IsNone(spec.regex) \/ fullmatch(Val(spec.regex), w)
        /\ ~spec.exclude_with_spaces \/ " " \notin Range(w)}

C1_Pre ==
  /\ last.op = "filter"
  /\ IsNone(last.spec.word_min_length) \/ Val(last.spec.word_min_length) >= 1
  /\ IsNone(last.spec.word_max_length) \/ Val(last.spec.word_max_length) >= 1
  /\ ~LengthsRejected(last.spec)
  /\ Range(Requested(last.spec)) \subseteq DOMAIN LastCats
  /\ Compiles(last.spec.regex)

\* C1: with length bounds absent or positive and ordered, every category
\* named configured and a pattern that compiles, filter returns exactly the
\* words of the selected categories (all when none is named) that lie within
\* the bounds, start and end as asked, fully match the pattern and hold no
\* space when spaces are excluded, each once.
C1_FilterExact ==
  C1_Pre => last.out = Ok(Expected(LastCats, last.spec))

\* a filter over two categories that share a word, with a pattern, a prefix
\* index and a word returned that is in both categories
C1_Witness ==
  /\ C1_Pre
  /\ last.spec.include_categories = <<"noun", "adjective">>
  /\ ~IsNone(last.spec.regex)
  /\ ~IsNone(tries[LastEngine])
  /\ \E w \in last.out.value :
       /\ w \in Range(Deref(LastCats["noun"]))
       /\ w \in Range(Deref(LastCats["adjective"]))

\* the engine __init__ builds from the same categories in the other index mode
TwinTries(e) ==
  IF IsNone(tries[e])
    THEN BuildTries(TRUE, [n \in DOMAIN categories[e] |-> Deref(categories[e][n])])
    ELSE None

\* C2: filter gives the same outcome, words or error, with the prefix and
\* suffix indices enabled and with them disabled.
C2_IndexEquivalence ==
  last.op = "filter" =>
    last.out = filter(LastCats, TwinTries(LastEngine), last.spec)

\* C3: a word_max_length of 0 gives what an absent word_max_length gives.
C3_ZeroMaxUnbounded ==
  (last.op = "filter" /\ last.spec.word_max_length = Some(0)) =>
    /\ last.out.kind = "ok"
    /\ last.out = filter(LastCats, tries[LastEngine],
                         [last.spec EXCEPT !.word_max_length = None])

Negative(o) == ~IsNone(o) /\ Val(o) < 0
DropNegative(o) == IF Negative(o) THEN None ELSE o

\* C4: a negative bound is never rejected and gives what the same spec with
\* that bound absent gives.
C4_NegativeUnbounded ==
  (/\ last.op = "filter"
   /\ Negative(last.spec.word_min_length) \/ Negative(last.spec.word_max_length)) =>
    /\ last.out.msg # LengthMessage
    /\ last.out = filter(LastCats, tries[LastEngine],
                         [last.spec EXCEPT
                            !.word_min_length = DropNegative(@),
                            !.word_max_length = DropNegative(@)])

\* C5: filter raises the length-bounds error exactly when both bounds are
\* given, the minimum exceeds the maximum and the maximum is not 0, whatever
\* the categories named, and then returns no words.
C5_LengthError ==
  last.op = "filter" =>
    /\ last.out = Raise("ValueError", LengthMessage) <=> LengthsRejected(last.spec)
    /\ LengthsRejected(last.spec) => last.out.value = {}

\* rejected bounds together with a category that is not configured
C5_Witness ==
  /\ last.op = "filter"
  /\ LengthsRejected(last.spec)
  /\ last.spec.include_categories = <<"pet">>
  /\ last.out.msg = LengthMessage

Unknown(cats, names) == {i \in DOMAIN names : names[i] \notin DOMAIN cats}
FirstUnknown(cats, names) ==
  names[CHOOSE i \in Unknown(cats, names) : \A j \in Unknown(cats, names) : i <= j]

\* C6: with bounds that pass, naming a category that is not configured makes
\* filter raise the error that names the first such category, whatever the
\* other constraints and the index mode, and no words are returned.
C6_UnknownCategory ==
  (/\ last.op = "filter"
   /\ ~LengthsRejected(last.spec)
   /\ Unknown(LastCats, Requested(last.spec)) # {}) =>
    last.out = Raise("ValueError",
                     CategoryMessage(FirstUnknown(LastCats, Requested(last.spec))))

\* two names that are not configured after one that is, on an indexed
\* engine, with a pattern that does not compile
C6_Witness ==
  /\ last.op = "filter"
  /\ last.spec.include_categories = <<"noun", "pet", "verb">>
  /\ Cardinality(Unknown(LastCats, last.spec.include_categories)) = 2
  /\ ~IsNone(tries[LastEngine])
  /\ last.spec.regex = Some(P_star)
  /\ last.out.msg = CategoryMessage("pet")

\* the pool random_words samples from
Pool == filter(LastCats, tries[LastEngine], last.spec)

Distinct(s) == \A i, j \in DOMAIN s : i # j => s[i] # s[j]

\* C7: without shortfall and with amount at most the size of the pool,
\* random_words returns amount words, pairwise distinct and all of the pool;
\* with amount the size of the pool it returns a permutation of the pool.
C7_SampleDistinct ==
  (/\ last.op = "random_words"
   /\ ~last.return_less_if_necessary
   /\ Pool.kind = "ok"
   /\ last.amount <= Cardinality(Pool.value)) =>
    /\ last.out.kind = "ok"
    /\ Len(last.out.value) = last.amount
    /\ Distinct(last.out.value)
    /\ Range(last.out.value) \subseteq Pool.value
    /\ last.amount = Cardinality(Pool.value) => Range(last.out.value) = Pool.value

\* a sample of the whole of a pool of at least two words
C7_Witness ==
  /\ last.op = "random_words"
  /\ ~last.return_less_if_necessary
  /\ Pool.kind = "ok"
  /\ last.amount = Cardinality(Pool.value)
  /\ last.amount >= 2
  /\ last.out.kind = "ok"

\* C8: whenever amount is at most the size of the pool, random_words returns
\* amount words, shortfall allowed or not; the whole pool is returned only
\* when amount exceeds its size and shortfall is allowed.
C8_ExactCount ==
  (last.op = "random_words" /\ Pool.kind = "ok") =>
    /\ last.amount <= Cardinality(Pool.value) =>
         (last.out.kind = "ok" /\ Len(last.out.value) = last.amount)
    /\ (last.amount > Cardinality(Pool.value) /\ last.return_less_if_necessary) =>
         (last.out.kind = "ok" /\ Range(last.out.value) = Pool.value)

NotEnough ==
  /\ ~last.return_less_if_necessary
  /\ last.amount > Cardinality(Pool.value)

ListsKept ==
  /\ callerLists' = callerLists
  /\ default_categories' = default_categories

NoSharedSequence ==
  \A e1, e2 \in Engines :
    (e1 # e2 /\ built[e1] /\ built[e2]) =>
      Range(categories[e1]) \cap Range(categories[e2]) = {}

\* C10: construction leaves the caller's list and the shared default lists
\* as they were, and two engines never refer to the same list object.
C10_SortsCopy == [][ListsKept]_vars /\ []NoSharedSequence

\* the indices, counted from 0, of the words at least target_length long
AtLeast(words, target_length) ==
  {i \in 0..(Len(words) - 1) : Len(words[i + 1]) >= target_length}

\* the least of them, the length of the list when there is none
FirstAtLeast(words, target_length) ==
  IF AtLeast(words, target_length) = {} THEN Len(words)
  ELSE CHOOSE i \in AtLeast(words, target_length) :
         \A j \in AtLeast(words, target_length) : i <= j

\* whether a length lies within the bounds given
Within(n, min_length, max_length) ==
  /\ IsNone(min_length) \/ Val(min_length) <= n
  /\ IsNone(max_length) \/ n <= Val(max_length)

\* the words of a list within the bounds, in the order of the list
RECURSIVE WordsWithin(_, _, _)
WordsWithin(words, min_length, max_length) ==
  IF words = <<>> THEN <<>>
  ELSE (IF Within(Len(words[1]), min_length, max_length) THEN <<words[1]>> ELSE <<>>)
       \o WordsWithin(SubSeq(words, 2, Len(words)), min_length, max_length)

\* C11: on a list sorted ascending by length, the bisection returns the
\* first index whose word is at least target_length long, the length of the
\* list when there is none; and _get_words_of_length returns exactly the
\* words whose length lies within the bounds, an absent bound being
\* unbounded: nothing when min_length exceeds the longest word, the words of
\* length min_length when the two bounds are equal.
C11_BisectSlice ==
  /\ last.op = "_bisect_by_length" =>
       last.out = FirstAtLeast(WordList, last.target_length)
  /\ last.op = "_get_words_of_length" =>
       /\ last.out = WordsWithin(WordList, last.min_length, last.max_length)
       /\ (/\ ~IsNone(last.min_length)
           /\ \A i \in DOMAIN WordList : Len(WordList[i]) < Val(last.min_length)) =>
            last.out = <<>>
       /\ (~IsNone(last.min_length) /\ last.min_length = last.max_length) =>
            Range(last.out) =
              {w \in Range(WordList) : Len(w) = Val(last.min_length)}

\* equal bounds picking two words of one length out of the middle of a list
\* that has shorter and longer words too
C11_Witness ==
  /\ last.op = "_get_words_of_length"
  /\ ~IsNone(last.min_length)
  /\ last.min_length = last.max_length
  /\ Len(last.out) = 2
  /\ last.out[1] # last.out[2]
  /\ Len(WordList) = 4
  /\ Len(WordList[1]) < Val(last.min_length)
  /\ Len(WordList[4]) > Val(last.min_length)

\* every category of every engine built is sorted ascending by length
CategoriesSorted ==
  \A e \in Engines :
    built[e] => \A n \in DOMAIN categories[e] : IsSortedByLen(Deref(categories[e][n]))

\* the lists, the categories and the indices are as before the step
EngineKept ==
  /\ callerLists' = callerLists
  /\ default_categories' = default_categories
  /\ categories' = categories
  /\ tries' = tries

\* C12: once the engine is constructed, no call of filter or random_words,
\* returning or raising, with or without shortfall, changes a category's
\* sequence or the indices, and every category stays sorted ascending by
\* length; filter reads nothing else of the engine, so a filter call made
\* again after any such calls returns the same words.
C12_CallsKeepEngine ==
  /\ [][built[FirstEngine] => EngineKept]_vars
  /\ []CategoriesSorted

\* a sample of two words or more drawn from an indexed engine whose category
\* is the caller's list, given in descending length and since sorted
C12_Witness ==
  /\ last.op = "random_words"
  /\ last.out.kind = "ok"
  /\ Len(last.out.value) >= 2
  /\ built[FirstEngine]
  /\ ~IsNone(tries[FirstEngine])
  /\ "L1" \in Range(categories[FirstEngine])
  /\ callerLists["L1"] = <<W_b, W_aba>>

====
